---- MODULE Spec2Model ----
(***************************************************************************)
(* mcp-duckduckresearch: the tool dispatcher (src/index.ts), the browser   *)
(* manager (src/browser.ts, the current copy at lines 409-776), the search *)
(* wrapper (search.ts) and the utilities (utils.ts, types.ts).             *)
(*                                                                         *)
(* Node runs one handler at a time and switches handlers only at an await, *)
(* so every action below is the code executed from one resumption to the   *)
(* next await.  Results of the external libraries (playwright, the search  *)
(* scraper, the operation given to withRetry) are chosen by \E.            *)
(***************************************************************************)
EXTENDS Integers, Sequences, FiniteSets, TLC

VARIABLES
  initialized,  \* DuckDuckResearchServer.initialized (the oninitialized event fired)
  pendingInitialization, \* the promise of that name: "pending" or "resolved"
  browser,      \* BrowserManager.browser: NoBrowser (undefined) or a browser id
  page,         \* BrowserManager.page: NoPage (undefined) or a page id
  browsers,     \* every browser chromium.launch returned: browsers[id] is its status
  pages,        \* every page newPage returned: pages[id] = [browser, url,
                \* noiseRemoved (the noise regions were removed from its
                \* live document)]
  proc,         \* the activations: one handler or API call per slot
  ncalls,       \* direct BrowserManager API calls made so far (SpecManager)
  rt,           \* the activation of withRetry (utils.ts)
  sr,           \* the activation of performSearch (search.ts)
  ul            \* the calls of isValidUrl made so far: argument and outcome

mgrVars == <<browser, page, browsers, pages>>
srvVars == <<initialized, pendingInitialization, browser, page, browsers, pages, proc, ncalls, sr, ul>>
envVars == <<initialized, pendingInitialization, ncalls, rt, sr, ul>>
vars == <<initialized, pendingInitialization, browser, page, browsers, pages, proc, ncalls, rt, sr, ul>>

(***************************************************************************)
(* Bounds of the model                                                     *)
(***************************************************************************)
MaxRetriesArg == 3
MaxCalls == 4
MaxUrlCalls == 2
MaxRaceCalls == 2
MaxFlagCalls == 2

\* the slots that run request handlers or direct API calls
Procs == {"p1", "p2"}

Undefined == "undefined"
NoBrowser == 0
NoPage == 0

(***************************************************************************)
(* utils.ts: constants                                                     *)
(***************************************************************************)
MAX_RETRIES == 3
RETRY_DELAY == 1000

(***************************************************************************)
(* utils.ts: withRetry                                                     *)
(***************************************************************************)
\* the values and errors an operation can produce, and the arguments tried
OpValues == {"v1", "v2"}
OpErrors == {"e1", "e2"}
RetriesArgs == (-1) .. MaxRetriesArg
DelayArgs == {RETRY_DELAY, 50}

\* a loop that always makes its first pass
RetryLoopAtLeastOnce(i, retries) == i = 0 \/ i < retries
\* a loop with an inclusive bound: one invocation too many
RetryLoopOffByOne(i, retries) == i <= retries
\* for (let i = 0; i < retries; i++)
RetryLoopCond(i, retries) == i < retries

\* a wait after every failure, the last one included
RetryWaitAlways(i, retries) == TRUE
\* if (i < retries - 1): a wait follows this failure
RetryWaitCond(i, retries) == i < retries - 1

RtIdle ==
  [pc |-> "idle", retries |-> 0, delay |-> 0, i |-> 0, hist |-> <<>>,
   waits |-> <<>>, lastError |-> Undefined, result |-> Undefined]

\* the head of the loop: invoke the operation, or leave the loop and throw
RetryLoopHead(r) ==
  IF RetryLoopCond(r.i, r.retries)
    THEN [r EXCEPT !.pc = "op"]
    ELSE [r EXCEPT !.pc = "rejected", !.result = r.lastError]

\* withRetry(operation, retries, delay), up to the first await
RetryCall ==
  /\ rt.pc = "idle"
  /\ UNCHANGED srvVars
  /\ \E m \in RetriesArgs, d \in DelayArgs :
       rt' = RetryLoopHead([rt EXCEPT !.retries = m, !.delay = d, !.i = 0])

\* withRetry(operation): the defaults of both optional parameters
RetryCallDefault ==
  /\ rt.pc = "idle"
  /\ UNCHANGED srvVars
  /\ rt' = RetryLoopHead([rt EXCEPT !.retries = MAX_RETRIES,
                                    !.delay = RETRY_DELAY, !.i = 0])

\* return await operation(): the operation resolved
RetryOpResolves ==
  /\ rt.pc = "op"
  /\ UNCHANGED srvVars
  /\ \E v \in OpValues :
       rt' = [rt EXCEPT !.pc = "resolved", !.result = v,
                        !.hist = Append(rt.hist, [ok |-> TRUE, val |-> v])]

\* catch (error): the operation rejected
RetryOpRejects ==
  /\ rt.pc = "op"
  /\ UNCHANGED srvVars
  /\ \E e \in OpErrors :
       LET r == [rt EXCEPT !.lastError = e,
                           !.hist = Append(rt.hist, [ok |-> FALSE, val |-> e])]
       IN IF RetryWaitCond(r.i, r.retries)
            THEN rt' = [r EXCEPT !.pc = "wait"]
            ELSE rt' = RetryLoopHead([r EXCEPT !.i = r.i + 1])

\* await new Promise((resolve) => setTimeout(resolve, delay)) is over
RetryWaitDone ==
  /\ rt.pc = "wait"
  /\ UNCHANGED srvVars
  /\ rt' = RetryLoopHead([rt EXCEPT !.i = rt.i + 1,
                                    !.waits = Append(rt.waits, rt.delay)])

(***************************************************************************)
(* Errors: a class, a protocol code and a message cut into fragments;      *)
(* String.includes of a fragment is membership among the fragments.        *)
(***************************************************************************)
PlainError(msg) == [cls |-> "Error", code |-> "none", msg |-> msg]
McpError(code, msg) == [cls |-> "McpError", code |-> code, msg |-> msg]
ZodError(msg) == [cls |-> "ZodError", code |-> "none", msg |-> msg]
NoError == [cls |-> "none", code |-> "none", msg |-> <<>>]
Includes(msg, frag) == \E i \in 1 .. Len(msg) : msg[i] = frag

\* what a rejected call of an external library carries
ExtErrors == {PlainError(<<"Target closed">>)}

(***************************************************************************)
(* src/browser.ts: BrowserManager (lines 409-484)                          *)
(***************************************************************************)
NoShot == [id |-> 0, len |-> 0]
NoVal == [set |-> FALSE, wordCount |-> 0, botProtection |-> FALSE,
          suspiciousTitle |-> FALSE]
NoArgs == [query |-> Undefined, url |-> Undefined, takeScreenshot |-> Undefined]
NoResp == [kind |-> "none", code |-> "none", msg |-> <<>>, content |-> <<>>,
           tools |-> <<>>]

ProcIdle ==
  [pc |-> "idle", api |-> "none", name |-> Undefined, args |-> NoArgs,
   pg |-> NoPage, br |-> NoBrowser, stage |-> "none", attempts |-> 0,
   shot |-> NoShot, vpLog |-> <<>>, ncap |-> 0, caps |-> <<>>, closes |-> 0,
   val |-> NoVal, status |-> "none", gotos |-> 0,
   thrown |-> NoError, calls |-> {}, resp |-> NoResp,
   ret |-> NoPage, retBrowser |-> NoBrowser]

LiveBrowsers == {b \in 1 .. Len(browsers) : browsers[b] = "live"}
OpenBrowsers == {b \in 1 .. Len(browsers) : browsers[b] # "closed"}
LivePages == {g \in 1 .. Len(pages) : pages[g].browser \in LiveBrowsers}

\* an operation on a browser (or on a page of it) can succeed while the
\* browser is not closed; it can always reject
BrowserUsable(b) == b \in OpenBrowsers
PageUsable(g) == g \in 1 .. Len(pages) /\ BrowserUsable(pages[g].browser)

RespError(e) ==
  [kind |-> "error", code |-> e.code, msg |-> e.msg, content |-> <<>>,
   tools |-> <<>>]
RespResult(content) ==
  [kind |-> "result", code |-> "none", msg |-> <<>>, content |-> content,
   tools |-> <<>>]

\* a catch block that wraps every exception, protocol errors included
NormalizeErrorWrapAll(e) ==
  McpError("InternalError", <<"Tool execution failed: ">> \o e.msg)
\* index.ts 167-176: the catch block of the call-tool handler
NormalizeError(e) ==
  IF e.cls = "McpError"
    THEN e
    ELSE McpError("InternalError", <<"Tool execution failed: ">> \o e.msg)

\* an exception e leaves the current component: a handler answers with the
\* normalized error, a direct API call rejects with e
Throw(pr, e) ==
  IF pr.api = "call"
    THEN [pr EXCEPT !.pc = "done", !.thrown = e, !.pg = NoPage,
                    !.br = NoBrowser, !.resp = RespError(NormalizeError(e))]
    ELSE [pr EXCEPT !.pc = "threw", !.thrown = e, !.pg = NoPage,
                    !.br = NoBrowser]

\* index.ts 144-147 / 130-131: what the caller does with the page that
\* ensureBrowser returned, up to its next await
\*   visit_page: safePageNavigation(page, url) up to await page.context()
\*   take_screenshot: takeScreenshotWithSizeLimit(page) up to the first
\*     await page.setViewportSize({1600, 900})
InitialViewport == [width |-> 1600, height |-> 900]

AfterEnsure(pr, g) ==
  IF pr.api = "call" /\ pr.name = "visit_page"
    THEN [pr EXCEPT !.pc = "nav_context", !.pg = g, !.br = NoBrowser,
                    !.calls = @ \cup {"safePageNavigation"}]
  ELSE IF pr.api = "call" /\ pr.name = "take_screenshot"
    THEN [pr EXCEPT !.pc = "shot_vp", !.pg = g, !.br = NoBrowser,
                    !.stage = "init",
                    !.attempts = 0, !.vpLog = <<InitialViewport>>,
                    !.calls = @ \cup {"takeScreenshotWithSizeLimit"}]
  ELSE [pr EXCEPT !.pc = "returned", !.br = NoBrowser, !.ret = g,
                  !.retBrowser = browser]

\* browser.ts 439: if (!this.browser)
NeedsLaunch == browser = NoBrowser

\* browser.ts 437-462: ensureBrowser up to its first await (or its return)
EnsureEnter(pr0) ==
  LET pr == [pr0 EXCEPT !.calls = @ \cup {"ensureBrowser"}]
  IN IF NeedsLaunch
       THEN [pr EXCEPT !.pc = "eb_launch"]
     ELSE IF page = NoPage
       THEN [pr EXCEPT !.pc = "eb_ctx2", !.br = browser]
     ELSE AfterEnsure(pr, page)

\* browser.ts 442-452: chromium.launch resolved: the handle is set and
\* newContext is called on it
LaunchResolved(p) ==
  /\ UNCHANGED envVars
  /\ proc[p].pc = "eb_launch"
  /\ browsers' = Append(browsers, "live")
  /\ browser' = Len(browsers) + 1
  /\ proc' = [proc EXCEPT ![p].pc = "eb_ctx1", ![p].br = Len(browsers) + 1]
  /\ UNCHANGED <<page, pages>>

\* browser.ts 446-450: chromium.launch rejected
LaunchRejected(p) ==
  /\ UNCHANGED envVars
  /\ proc[p].pc = "eb_launch"
  /\ \E e \in ExtErrors :
       proc' = [proc EXCEPT ![p] =
                  Throw(@, PlainError(<<"Browser launch failed: ">> \o e.msg))]
  /\ UNCHANGED mgrVars

\* browser.ts 452-453 and 457-458: newContext resolved, newPage is called
ContextResolved(p) ==
  /\ UNCHANGED envVars
  /\ proc[p].pc \in {"eb_ctx1", "eb_ctx2"}
  /\ BrowserUsable(proc[p].br)
  /\ proc' = [proc EXCEPT ![p].pc =
                IF proc[p].pc = "eb_ctx1" THEN "eb_page1" ELSE "eb_page2"]
  /\ UNCHANGED mgrVars

\* browser.ts 453-461 and 458-461: newPage resolved: the page handle is set
\* and this.page is returned
PageResolved(p) ==
  /\ UNCHANGED envVars
  /\ proc[p].pc \in {"eb_page1", "eb_page2"}
  /\ BrowserUsable(proc[p].br)
  /\ pages' = Append(pages, [browser |-> proc[p].br, url |-> "about:blank",
                              noiseRemoved |-> FALSE])
  /\ page' = Len(pages) + 1
  /\ proc' = [proc EXCEPT ![p] = AfterEnsure(@, Len(pages) + 1)]
  /\ UNCHANGED <<browser, browsers>>

\* newContext or newPage rejected: the error leaves ensureBrowser as it is
CreateRejected(p) ==
  /\ UNCHANGED envVars
  /\ proc[p].pc \in {"eb_ctx1", "eb_ctx2", "eb_page1", "eb_page2"}
  /\ \E e \in ExtErrors : proc' = [proc EXCEPT ![p] = Throw(@, e)]
  /\ UNCHANGED mgrVars

\* the caller of cleanup gets its return
AfterCleanup(pr) == [pr EXCEPT !.pc = "returned"]

\* browser.ts 469-474: cleanup up to await this.browser.close()
CleanupEnter(p, pr) ==
  IF browser # NoBrowser
    THEN /\ proc' = [proc EXCEPT ![p] =
                       [pr EXCEPT !.pc = "cl_close", !.br = browser,
                                  !.calls = @ \cup {"close"},
                                  !.closes = @ + 1]]
         /\ browsers' = [browsers EXCEPT ![browser] =
                           IF @ = "live" THEN "closing" ELSE @]
         /\ UNCHANGED <<browser, page, pages>>
    ELSE /\ proc' = [proc EXCEPT ![p] = AfterCleanup(pr)]
         /\ UNCHANGED mgrVars

\* a cleanup that clears the handles only when close resolved
CleanupClosedOnSuccessOnly(p) ==
  /\ UNCHANGED envVars
  /\ proc[p].pc = "cl_close"
  /\ \E ok \in BOOLEAN :
       /\ browsers' = [browsers EXCEPT ![proc[p].br] =
                         IF ok THEN "closed" ELSE @]
       /\ browser' = IF ok THEN NoBrowser ELSE browser
       /\ page' = IF ok THEN NoPage ELSE page
  /\ proc' = [proc EXCEPT ![p] = AfterCleanup(@)]
  /\ UNCHANGED pages

\* browser.ts 474-481: close resolved or rejected (caught); finally both
\* handles are cleared
CleanupClosed(p) ==
  /\ UNCHANGED envVars
  /\ proc[p].pc = "cl_close"
  /\ \E ok \in BOOLEAN :
       browsers' = [browsers EXCEPT ![proc[p].br] =
                      IF ok THEN "closed" ELSE @]
  /\ browser' = NoBrowser
  /\ page' = NoPage
  /\ proc' = [proc EXCEPT ![p] = AfterCleanup(@)]
  /\ UNCHANGED pages

\* browser.ts 421-424: resetBrowser
ResetBrowser ==
  /\ browser' = NoBrowser
  /\ page' = NoPage
  /\ UNCHANGED <<browsers, pages, proc>>

(***************************************************************************)
(* new URL(s), as used by isValidUrl (utils.ts 44-51) and by zod's         *)
(* z.string().url() (types.ts 202): the WHATWG parser without a base URL,  *)
(* on the spelling of the sample strings.                                  *)
(***************************************************************************)
UrlSamples ==
  {"https://e.c", "http://e.c/p", "ftp://e.c", "file:///e", "not-a-url", "",
   "http:e.c", "HTTP://e.c", " https://e.c", "http://", "//e.c", "mailto:x"}

Chars(s) ==
  CASE s = "https://e.c" -> <<"h", "t", "t", "p", "s", ":", "/", "/", "e", ".", "c">>
    [] s = "http://e.c/p" -> <<"h", "t", "t", "p", ":", "/", "/", "e", ".", "c", "/", "p">>
    [] s = "ftp://e.c" -> <<"f", "t", "p", ":", "/", "/", "e", ".", "c">>
    [] s = "file:///e" -> <<"f", "i", "l", "e", ":", "/", "/", "/", "e">>
    [] s = "not-a-url" -> <<"n", "o", "t", "-", "a", "-", "u", "r", "l">>
    [] s = "" -> <<>>
    [] s = "http:e.c" -> <<"h", "t", "t", "p", ":", "e", ".", "c">>
    [] s = "HTTP://e.c" -> <<"H", "T", "T", "P", ":", "/", "/", "e", ".", "c">>
    [] s = " https://e.c" -> <<" ", "h", "t", "t", "p", "s", ":", "/", "/", "e", ".", "c">>
    [] s = "http://" -> <<"h", "t", "t", "p", ":", "/", "/">>
    [] s = "//e.c" -> <<"/", "/", "e", ".", "c">>
    [] s = "mailto:x" -> <<"m", "a", "i", "l", "t", "o", ":", "x">>

LowerAlpha ==
  {"a", "c", "e", "f", "h", "i", "l", "m", "n", "o", "p", "r", "s", "t", "u", "x"}
UpperAlpha == {"H", "T", "P"}
Lower(c) ==
  CASE c = "H" -> "h" [] c = "T" -> "t" [] c = "P" -> "p" [] OTHER -> c
IsAlpha(c) == c \in LowerAlpha \cup UpperAlpha
IsSchemeChar(c) == IsAlpha(c) \/ c \in {"+", "-", "."}

\* leading and trailing spaces are removed before parsing
RECURSIVE StripLeft(_)
StripLeft(cs) ==
  IF cs # <<>> /\ Head(cs) = " " THEN StripLeft(Tail(cs)) ELSE cs
RECURSIVE StripRight(_)
StripRight(cs) ==
  IF cs # <<>> /\ cs[Len(cs)] = " "
    THEN StripRight(SubSeq(cs, 1, Len(cs) - 1))
    ELSE cs
Strip(cs) == StripRight(StripLeft(cs))

\* the position of the first ":" (0: none)
ColonAt(cs) ==
  IF \E i \in 1 .. Len(cs) : cs[i] = ":"
    THEN CHOOSE i \in 1 .. Len(cs) :
           cs[i] = ":" /\ \A j \in 1 .. i - 1 : cs[j] # ":"
    ELSE 0

\* scheme state: an ASCII letter, then letters, +, -, . up to the ":"
HasScheme(cs) ==
  LET k == ColonAt(cs)
  IN /\ k > 1
     /\ IsAlpha(cs[1])
     /\ \A j \in 1 .. k - 1 : IsSchemeChar(cs[j])

SchemeOf(cs) == [j \in 1 .. ColonAt(cs) - 1 |-> Lower(cs[j])]

HostSpecialSchemes ==
  {<<"h", "t", "t", "p">>, <<"h", "t", "t", "p", "s">>, <<"f", "t", "p">>}

RECURSIVE SkipSlashes(_)
SkipSlashes(cs) ==
  IF cs # <<>> /\ Head(cs) \in {"/", "\\"} THEN SkipSlashes(Tail(cs)) ELSE cs

\* the host: up to the first "/", "?", "#" or ":" (a port)
RECURSIVE HostOf(_)
HostOf(cs) ==
  IF cs = <<>> \/ Head(cs) \in {"/", "?", "#", ":", "\\"}
    THEN <<>>
    ELSE <<Head(cs)>> \o HostOf(Tail(cs))

\* new URL(s) does not throw
UrlParses(s) ==
  LET cs == Strip(Chars(s))
  IN /\ HasScheme(cs)
     /\ SchemeOf(cs) \in HostSpecialSchemes =>
          LET host == HostOf(SkipSlashes(SubSeq(cs, ColonAt(cs) + 1, Len(cs))))
          IN host # <<>> /\ \A i \in 1 .. Len(host) : host[i] # " "

\* url.protocol of a string that parses
UrlProtocol(s) == SchemeOf(Strip(Chars(s))) \o <<":">>

\* a validator that accepts every string that parses, whatever its scheme
IsValidUrlAnyScheme(s) == UrlParses(s)

\* utils.ts 44-51: isValidUrl
IsValidUrl(s) ==
  /\ UrlParses(s)
  /\ UrlProtocol(s) \in {<<"h", "t", "t", "p", ":">>, <<"h", "t", "t", "p", "s", ":">>}

(***************************************************************************)
(* types.ts: the argument schemas                                          *)
(***************************************************************************)
\* types.ts 172-184: SearchArgsSchema accepts: query is a string
SearchArgsOk(args) == args.query # Undefined

\* types.ts 201-204: VisitPageArgsSchema accepts: url is a string that
\* new URL parses; takeScreenshot is an optional boolean
VisitArgsOk(args) ==
  /\ args.url # Undefined
  /\ UrlParses(args.url)
  /\ args.takeScreenshot \in {Undefined, "true", "false"}

(***************************************************************************)
(* src/browser.ts 500-602: safePageNavigation                              *)
(***************************************************************************)
\* what page.goto can resolve with: no response (0) or a response status
NoResponse == 0
GotoStatuses == {NoResponse, 200, 399, 400}

\* the status as it is printed in `HTTP ${status}: ...`
StatusDigits(st) ==
  CASE st = 200 -> "200" [] st = 399 -> "399" [] st = 400 -> "400"

\* browser.ts 525: response.statusText(), the reason phrase that the server
\* chose for its status line
StatusTexts == {"Bad Request", "Bot protection"}

\* browser.ts 543-549 and 551-557: the markup and the title phrases looked for
BotSelectors ==
  {"#challenge-running", "#cf-challenge-running", "#px-captcha",
   "#ddos-protection", "#waf-challenge-html"}
SuspiciousPhrases ==
  {"security check", "ddos protection", "please wait", "just a moment",
   "attention required"}

\* the documents a page can hold when it is inspected: the ids present,
\* the phrases the lower-cased title includes, the words of the body text
DocMarkup == {{}, {"#px-captcha"}}
DocTitlePhrases == {{}, {"just a moment"}}
DocBodyWords == {0, 9, 10}
Documents ==
  [ids : DocMarkup, phrases : DocTitlePhrases, words : DocBodyWords]

\* browser.ts 559-560: bodyText.trim().split(/\s+/).length; the split of an
\* empty text is [""]
WordCount(doc) == IF doc.words = 0 THEN 1 ELSE doc.words

\* browser.ts 542-568: the callback given to page.evaluate
Inspect(doc) ==
  [set |-> TRUE,
   wordCount |-> WordCount(doc),
   botProtection |-> doc.ids \cap BotSelectors # {},
   suspiciousTitle |-> doc.phrases \cap SuspiciousPhrases # {}]

MinWords == 10

BotError == PlainError(<<"Bot protection", " detected">>)
TitleError == PlainError(<<"Suspicious page title", " detected">>)
ContentError == PlainError(<<"Page contains ", "insufficient content">>)

\* the checks with the title looked at before the bot protection
NavVerdictTitleFirst(v) ==
  IF v.suspiciousTitle THEN TitleError
  ELSE IF v.botProtection THEN BotError
  ELSE IF v.wordCount < MinWords THEN ContentError
  ELSE NoError
\* the checks with a page of exactly ten words refused
NavVerdictInclusive(v) ==
  IF v.botProtection THEN BotError
  ELSE IF v.suspiciousTitle THEN TitleError
  ELSE IF v.wordCount <= MinWords THEN ContentError
  ELSE NoError
\* a validation that rejects nothing
NavVerdictLenient(v) == NoError
\* browser.ts 571-587: the three checks on the validation, in this order
NavVerdict(v) ==
  IF v.botProtection THEN BotError
  ELSE IF v.suspiciousTitle THEN TitleError
  ELSE IF v.wordCount < MinWords THEN ContentError
  ELSE NoError

\* browser.ts 588-600: the catch block of safePageNavigation
NavCatch(e, url) ==
  IF \/ Includes(e.msg, "Bot protection")
     \/ Includes(e.msg, "Suspicious page title")
     \/ Includes(e.msg, "insufficient content")
    THEN e
    ELSE PlainError(<<"Navigation to ", url, " failed: ">> \o e.msg)

\* browser.ts 503-504: page.context() answered; addCookies is called
NavContextResolved(p) ==
  /\ UNCHANGED envVars
  /\ proc[p].pc = "nav_context"
  /\ proc' = [proc EXCEPT ![p].pc = "nav_cookies",
                          ![p].calls = @ \cup {"addCookies"}]
  /\ UNCHANGED mgrVars

\* browser.ts 504-514: the cookie is set; page.goto is called
NavCookiesResolved(p) ==
  /\ UNCHANGED envVars
  /\ proc[p].pc = "nav_cookies"
  /\ PageUsable(proc[p].pg)
  /\ proc' = [proc EXCEPT ![p].pc = "nav_goto",
                          ![p].calls = @ \cup {"goto"},
                          ![p].gotos = @ + 1]
  /\ UNCHANGED mgrVars

\* browser.ts 511: the URLs page.goto can load: chromium has no handler for
\* a scheme other than http and https (ftp included), and page.goto
\* rejects for such a URL
Navigable(url) == IsValidUrl(url)

\* what page.goto gave, as it is logged at browser.ts 515
StatusLabel(st) == IF st = NoResponse THEN "no response" ELSE StatusDigits(st)

\* the status check with the bound one too high: 400 passes
GotoOutcomeAbove400(pr, st, txt) ==
  IF st = NoResponse
    THEN Throw(pr, NavCatch(
           PlainError(<<"Navigation failed: no response received">>),
           pr.args.url))
  ELSE IF st > 400
    THEN Throw(pr, NavCatch(
           PlainError(<<"HTTP ", StatusDigits(st), ": ", txt>>), pr.args.url))
  ELSE [pr EXCEPT !.pc = "nav_settle",
                  !.calls = @ \cup {"waitForLoadState"}]

\* a navigation that issues page.goto once more after an HTTP error
GotoOutcomeRetrying(pr, st, txt) ==
  IF st = NoResponse
    THEN Throw(pr, NavCatch(
           PlainError(<<"Navigation failed: no response received">>),
           pr.args.url))
  ELSE IF st >= 400
    THEN IF pr.gotos < 2
           THEN [pr EXCEPT !.pc = "nav_goto", !.gotos = @ + 1]
           ELSE Throw(pr, NavCatch(
                  PlainError(<<"HTTP ", StatusDigits(st), ": ", txt>>),
                  pr.args.url))
  ELSE [pr EXCEPT !.pc = "nav_settle",
                  !.calls = @ \cup {"waitForLoadState"}]

\* browser.ts 517-537: the checks on the response of page.goto, up to the
\* settle race
GotoOutcome(pr, st, txt) ==
  IF st = NoResponse
    THEN Throw(pr, NavCatch(
           PlainError(<<"Navigation failed: no response received">>),
           pr.args.url))
  ELSE IF st >= 400
    THEN Throw(pr, NavCatch(
           PlainError(<<"HTTP ", StatusDigits(st), ": ", txt>>), pr.args.url))
  ELSE [pr EXCEPT !.pc = "nav_settle",
                  !.calls = @ \cup {"waitForLoadState"}]

\* browser.ts 511-537: page.goto resolved; without a response, or with a
\* status >= 400, an error is thrown; otherwise the settle race starts
NavGotoResolved(p) ==
  /\ UNCHANGED envVars
  /\ proc[p].pc = "nav_goto"
  /\ PageUsable(proc[p].pg)
  /\ Navigable(proc[p].args.url)
  /\ \E st \in GotoStatuses, txt \in StatusTexts :
       /\ pages' = IF st = NoResponse
                     THEN pages
                     ELSE [pages EXCEPT ![proc[p].pg].url = proc[p].args.url,
                                        ![proc[p].pg].noiseRemoved = FALSE]
       /\ proc' = [proc EXCEPT ![p] =
            GotoOutcome([@ EXCEPT !.status = StatusLabel(st)], st, txt)]
  /\ UNCHANGED <<browser, page, browsers>>

\* browser.ts 532-542: the race of network idle and the 5 s timer is over;
\* page.evaluate is called
NavSettled(p) ==
  /\ UNCHANGED envVars
  /\ proc[p].pc = "nav_settle"
  /\ proc' = [proc EXCEPT ![p].pc = "nav_eval",
                          ![p].calls = @ \cup {"evaluate"}]
  /\ UNCHANGED mgrVars

\* a handler that captures the page when the flag of the request is set
AfterNavigationWithShot(pr) ==
  IF pr.args.takeScreenshot = "true"
    THEN [pr EXCEPT !.pc = "shot_vp", !.stage = "init",
                    !.vpLog = <<InitialViewport>>,
                    !.calls = @ \cup {"takeScreenshotWithSizeLimit"}]
    ELSE [pr EXCEPT !.pc = "ext_eval",
                    !.calls = @ \cup {"extractContentAsMarkdown"}]

\* index.ts 132: extractContentAsMarkdown(page) up to await page.evaluate
AfterNavigation(pr) ==
  [pr EXCEPT !.pc = "ext_eval",
             !.calls = @ \cup {"extractContentAsMarkdown"}]

\* browser.ts 542-587: the validation arrived; reject or return
NavInspected(p) ==
  /\ UNCHANGED envVars
  /\ proc[p].pc = "nav_eval"
  /\ PageUsable(proc[p].pg)
  /\ \E doc \in Documents :
       LET v == Inspect(doc)
           e == NavVerdict(v)
       IN proc' = [proc EXCEPT ![p] =
            IF e # NoError
              THEN Throw([@ EXCEPT !.val = v], NavCatch(e, @.args.url))
              ELSE AfterNavigation([@ EXCEPT !.val = v])]
  /\ UNCHANGED mgrVars

\* addCookies, page.goto or page.evaluate rejected
NavRejected(p) ==
  /\ UNCHANGED envVars
  /\ proc[p].pc \in {"nav_cookies", "nav_goto", "nav_eval"}
  /\ \E e \in ExtErrors :
       proc' = [proc EXCEPT ![p] = Throw(@, NavCatch(e, @.args.url))]
  /\ UNCHANGED mgrVars

(***************************************************************************)
(* src/browser.ts 620-698: extractContentAsMarkdown                        *)
(***************************************************************************)
TextItem(text) == [type |-> "text", mediaType |-> "none", body |-> text]
ImageItem(data) == [type |-> "image", mediaType |-> "image/png", body |-> data]

\* browser.ts 629-671: the callback given to page.evaluate, called without
\* a selector: the first main-content element if one matches; otherwise the
\* noise regions are removed from document.body, the live body of the page,
\* and what is left of it is returned
\* (first: an extraction that reads the blank document of a new page
\* instead of the document the page holds)
ExtractedFromBlank(g, mainMatched) ==
  IF mainMatched
    THEN <<"main content of", "about:blank">>
    ELSE <<"body without noise of", "about:blank">>
ExtractedFrom(g, mainMatched) ==
  IF mainMatched
    THEN <<"main content of", pages[g].url>>
    ELSE <<"body without noise of", pages[g].url>>
DocumentAfterExtract(g, mainMatched) ==
  IF mainMatched THEN pages[g] ELSE [pages[g] EXCEPT !.noiseRemoved = TRUE]

\* browser.ts 623-692 and index.ts 132-141: the markup arrived; it is
\* converted and the handler answers
ExtractResolved(p) ==
  /\ UNCHANGED envVars
  /\ proc[p].pc = "ext_eval"
  /\ PageUsable(proc[p].pg)
  /\ \E mainMatched \in BOOLEAN :
       /\ proc' = [proc EXCEPT ![p].pc = "done", ![p].pg = NoPage,
                     ![p].resp = RespResult(<<TextItem(
                        <<"markdown of">> \o
                        ExtractedFrom(proc[p].pg, mainMatched))>>)]
       /\ pages' = [pages EXCEPT ![proc[p].pg] =
                      DocumentAfterExtract(proc[p].pg, mainMatched)]
  /\ UNCHANGED <<browser, page, browsers>>

\* browser.ts 693-697: page.evaluate rejected
ExtractRejected(p) ==
  /\ UNCHANGED envVars
  /\ proc[p].pc = "ext_eval"
  /\ \E e \in ExtErrors :
       proc' = [proc EXCEPT ![p] =
                  Throw(@, PlainError(<<"Content extraction failed: ">> \o e.msg))]
  /\ UNCHANGED mgrVars

(***************************************************************************)
(* src/browser.ts 713-775: takeScreenshotWithSizeLimit                     *)
(***************************************************************************)
MAX_DIMENSION == 1920
MIN_DIMENSION == 800
\* one shrink attempt more than the code makes
MaxAttemptsOneMore == 3 + 1
MAX_ATTEMPTS == 3
ScreenshotLimit == 5 * 1024 * 1024

\* the byte lengths a capture can have
CaptureLens == {15, ScreenshotLimit, ScreenshotLimit + 1}

RECURSIVE Pow(_, _)
Pow(b, n) == IF n = 0 THEN 1 ELSE b * Pow(b, n - 1)

\* Math.round(base * 0.75 ** k): 0.75 ** k is 3^k / 4^k, exact in a double
ScaledRound(base, k) ==
  (2 * base * Pow(3, k) + Pow(4, k)) \div (2 * Pow(4, k))

Max(a, b) == IF a >= b THEN a ELSE b
Min(a, b) == IF a <= b THEN a ELSE b
Clamp(x) == Max(MIN_DIMENSION, Min(MAX_DIMENSION, x))

\* the viewport of shrink attempt k with both dimensions clamped
ShrinkViewportBothClamped(k) ==
  [width |-> Clamp(ScaledRound(1600, k)), height |-> Clamp(ScaledRound(900, k))]
\* browser.ts 735-740: the viewport of shrink attempt k; the clamp of the
\* width is part of the comment on line 739, so only the height is clamped
ShrinkViewport(k) ==
  [width |-> ScaledRound(1600, k), height |-> Clamp(ScaledRound(900, k))]

MinViewport == [width |-> MIN_DIMENSION, height |-> MIN_DIMENSION]

\* a comparison that also refuses a capture of exactly the limit
OversizedInclusive(len) == len >= ScreenshotLimit
\* a comparison that lets a capture of one byte over the limit pass
OversizedLoose(len) == len > ScreenshotLimit + 1
\* browser.ts 733, 755, 767: screenshot.length > 5 * 1024 * 1024
Oversized(len) == len > ScreenshotLimit

\* Buffer.toString("base64"): 4 characters for every 3 bytes, padded
Base64(shot) == [of |-> shot.id, chars |-> 4 * ((shot.len + 2) \div 3)]

\* index.ts 148-157: the handler answers with the image
ShotReturn(pr) ==
  [pr EXCEPT !.pc = "done", !.pg = NoPage,
             !.resp = RespResult(<<ImageItem(Base64(pr.shot))>>)]

\* browser.ts 768-770: the error of the last resort
ReduceError ==
  PlainError(<<"Failed to reduce screenshot to under 5MB even with minimum settings">>)

\* browser.ts 733-774: from a capture to the next await, the return or the
\* throw
AfterCapture(pr) ==
  IF pr.stage = "min"
    THEN IF Oversized(pr.shot.len)
           THEN Throw(pr, ReduceError)
           ELSE ShotReturn(pr)
  ELSE IF Oversized(pr.shot.len) /\ pr.attempts < MAX_ATTEMPTS
    THEN [pr EXCEPT !.pc = "shot_vp", !.stage = "loop",
                    !.attempts = pr.attempts + 1,
                    !.vpLog = Append(@, ShrinkViewport(pr.attempts + 1))]
  ELSE IF Oversized(pr.shot.len)
    THEN [pr EXCEPT !.pc = "shot_vp", !.stage = "min",
                    !.vpLog = Append(@, MinViewport)]
  ELSE ShotReturn(pr)

\* setViewportSize resolved; page.screenshot is called
ShotViewportSet(p) ==
  /\ UNCHANGED envVars
  /\ proc[p].pc = "shot_vp"
  /\ PageUsable(proc[p].pg)
  /\ proc' = [proc EXCEPT ![p].pc = "shot_cap"]
  /\ UNCHANGED mgrVars

\* page.screenshot resolved with a buffer
ShotCaptured(p) ==
  /\ UNCHANGED envVars
  /\ proc[p].pc = "shot_cap"
  /\ PageUsable(proc[p].pg)
  /\ \E len \in CaptureLens :
       proc' = [proc EXCEPT ![p] =
                  AfterCapture([@ EXCEPT !.ncap = @ + 1,
                                         !.caps = Append(@, len),
                                         !.shot = [id |-> proc[p].ncap + 1,
                                                   len |-> len]])]
  /\ UNCHANGED mgrVars

\* setViewportSize or page.screenshot rejected
ShotRejected(p) ==
  /\ UNCHANGED envVars
  /\ proc[p].pc \in {"shot_vp", "shot_cap"}
  /\ \E e \in ExtErrors : proc' = [proc EXCEPT ![p] = Throw(@, e)]
  /\ UNCHANGED mgrVars

(***************************************************************************)
(* src/index.ts: DuckDuckResearchServer                                    *)
(***************************************************************************)
\* the descriptors in the opposite order
ListedToolsReversed == <<"take_screenshot", "visit_page", "search_duckduckgo">>
\* index.ts 65-85: the descriptors of list-tools, by name
ListedTools == <<"search_duckduckgo", "visit_page", "take_screenshot">>

RespTools(tools) ==
  [kind |-> "result", code |-> "none", msg |-> <<>>, content |-> <<>>,
   tools |-> tools]

\* the requests a client sends; the empty name stands for every falsy name
\* (a missing name is treated alike by index.ts 97)
ToolNames ==
  {"search_duckduckgo", "visit_page", "take_screenshot", "nonexistent_tool", ""}
FalsyNames == {Undefined, ""}
VisitUrls == {"https://e.c", "ftp://e.c", "not-a-url", Undefined}
SearchQueries == {"test query", Undefined}

ArgsOf(name) ==
  IF name = "visit_page"
    THEN {[NoArgs EXCEPT !.url = u] : u \in VisitUrls}
  ELSE IF name = "search_duckduckgo"
    THEN {[NoArgs EXCEPT !.query = q] : q \in SearchQueries}
  ELSE {NoArgs}

\* requests of the two tools that use the shared page, for two pages that
\* load
RaceTools == {"visit_page", "take_screenshot"}
RaceUrls == {"https://e.c", "http://e.c/p"}
RaceArgsOf(name) ==
  IF name = "visit_page"
    THEN {[NoArgs EXCEPT !.url = u] : u \in RaceUrls}
    ELSE {NoArgs}

\* index.ts 92-95: a call-tool request of one of these tools arrives
ReceiveRaceCall(p) ==
  /\ proc[p].pc = "idle"
  /\ ncalls < MaxRaceCalls
  /\ ncalls' = ncalls + 1
  /\ \E name \in RaceTools : \E args \in RaceArgsOf(name) :
       proc' = [proc EXCEPT ![p] =
                  [ProcIdle EXCEPT !.pc = "init_wait", !.api = "call",
                                   !.name = name, !.args = args]]
  /\ UNCHANGED <<initialized, pendingInitialization, mgrVars, rt, sr, ul>>

\* index.ts 50-56: the oninitialized event
\* an event handler that resolves the promise and leaves the flag unset
InitializedPromiseOnly ==
  /\ pendingInitialization = "pending"
  /\ pendingInitialization' = "resolved"
  /\ UNCHANGED <<initialized, mgrVars, proc, ncalls, rt, sr, ul>>

\* visit_page requests with every kind of takeScreenshot: absent, the two
\* booleans (written as their JSON text) and a value that is no boolean
FlagSamples == {Undefined, "true", "false", "yes"}
ReceiveFlagCall(p) ==
  /\ proc[p].pc = "idle"
  /\ ncalls < MaxFlagCalls
  /\ ncalls' = ncalls + 1
  /\ \E f \in FlagSamples :
       proc' = [proc EXCEPT ![p] =
                  [ProcIdle EXCEPT !.pc = "init_wait", !.api = "call",
                      !.name = "visit_page",
                      !.args = [NoArgs EXCEPT !.url = "https://e.c",
                                              !.takeScreenshot = f]]]
  /\ UNCHANGED <<initialized, pendingInitialization, mgrVars, rt, sr, ul>>

\* index.ts 50-56: the oninitialized event: the flag is set, then the
\* promise is resolved
Initialized ==
  /\ ~initialized
  /\ initialized' = TRUE
  /\ pendingInitialization' = "resolved"
  /\ UNCHANGED <<mgrVars, proc, ncalls, rt, sr, ul>>

\* index.ts 60-63: a list-tools request arrives, up to
\* await this.ensureInitialized()
ReceiveListTools(p) ==
  /\ proc[p].pc = "idle"
  /\ proc' = [proc EXCEPT ![p] =
                [ProcIdle EXCEPT !.pc = "init_wait", !.api = "list"]]
  /\ UNCHANGED <<envVars, mgrVars>>

\* index.ts 92-95: a call-tool request arrives, up to
\* await this.ensureInitialized()
ReceiveCallTool(p) ==
  /\ proc[p].pc = "idle"
  /\ \E name \in ToolNames : \E args \in ArgsOf(name) :
       proc' = [proc EXCEPT ![p] =
                  [ProcIdle EXCEPT !.pc = "init_wait", !.api = "call",
                                   !.name = name, !.args = args]]
  /\ UNCHANGED <<envVars, mgrVars>>

\* index.ts 195-198: ensureInitialized goes past its await: there was
\* nothing to wait for, or the promise is resolved
InitializationPassed == initialized \/ pendingInitialization = "resolved"

\* index.ts 200-206: the second check of ensureInitialized; its error is
\* thrown outside the try block of the handler
NotInitializedError == McpError("InvalidRequest", <<"Server not initialized">>)
AfterInitialization(pr, go) ==
  IF ~initialized
    THEN [pr EXCEPT !.pc = "done", !.resp = RespError(NotInitializedError)]
    ELSE go

\* index.ts 65-88: list-tools after ensureInitialized
ListTools(p) ==
  /\ InitializationPassed
  /\ proc[p].pc = "init_wait"
  /\ proc[p].api = "list"
  /\ proc' = [proc EXCEPT ![p] =
       AfterInitialization(proc[p],
         [proc[p] EXCEPT !.pc = "done", !.resp = RespTools(ListedTools)])]
  /\ UNCHANGED <<envVars, mgrVars>>

\* a switch without its default case
KnownToolAlways(name) == TRUE
\* index.ts 109, 160-165: the switch on the tool name
KnownTool(name) ==
  name \in {"search_duckduckgo", "visit_page", "take_screenshot"}

\* search.ts 142-162: performSearch up to await search(query, options)
PerformSearchEnter(pr) ==
  IF SearchArgsOk(pr.args)
    THEN [pr EXCEPT !.pc = "search_wait",
                    !.calls = @ \cup {"performSearch", "search"}]
    ELSE Throw([pr EXCEPT !.calls = @ \cup {"performSearch"}],
               PlainError(<<"Invalid arguments: ", "Required">>))

\* index.ts 112: SearchArgsSchema.parse(arguments) throws a ZodError
SearchParseFailure == ZodError(<<"Required">>)

\* index.ts 128: VisitPageArgsSchema.parse(arguments) accepts
VisitParseOk(args) == VisitArgsOk(args)

\* index.ts 97-166: call-tool after ensureInitialized, up to the first await
\* of the tool (or to the answer)
Dispatch(pr) ==
  IF pr.name \in FalsyNames
    THEN [pr EXCEPT !.pc = "done",
            !.resp = RespError(McpError("InvalidRequest",
                                        <<"Missing request parameters">>))]
  ELSE IF ~KnownTool(pr.name)
    THEN Throw(pr, McpError("MethodNotFound", <<"Unknown tool: ", pr.name>>))
  ELSE IF pr.name = "search_duckduckgo"
    THEN IF SearchArgsOk(pr.args)
           THEN PerformSearchEnter(pr)
           ELSE Throw(pr, SearchParseFailure)
  ELSE IF pr.name = "visit_page"
    THEN IF VisitParseOk(pr.args)
           THEN EnsureEnter(pr)
           ELSE Throw(pr, ZodError(<<"Invalid url">>))
  ELSE EnsureEnter(pr)

CallTool(p) ==
  /\ InitializationPassed
  /\ proc[p].pc = "init_wait"
  /\ proc[p].api = "call"
  /\ proc' = [proc EXCEPT ![p] = AfterInitialization(proc[p], Dispatch(proc[p]))]
  /\ UNCHANGED <<envVars, mgrVars>>

\* search.ts 162-170 and index.ts 114-123: the search resolved; the results
\* are processed and serialized
SearchResolved(p) ==
  /\ proc[p].pc = "search_wait"
  /\ proc' = [proc EXCEPT ![p].pc = "done",
                ![p].resp = RespResult(<<TextItem(<<"json of results for",
                                                   proc[p].args.query>>)>>)]
  /\ UNCHANGED <<envVars, mgrVars>>

\* search.ts 171-175: the search rejected
SearchRejected(p) ==
  /\ proc[p].pc = "search_wait"
  /\ \E e \in ExtErrors :
       proc' = [proc EXCEPT ![p] =
                  Throw(@, PlainError(<<"Search failed: ">> \o e.msg))]
  /\ UNCHANGED <<envVars, mgrVars>>

\* the answer is sent: the slot is free for the next request
Respond(p) ==
  /\ proc[p].pc = "done"
  /\ proc' = [proc EXCEPT ![p] = ProcIdle]
  /\ UNCHANGED <<envVars, mgrVars>>

(***************************************************************************)
(* search.ts 142-176: performSearch with its options, called directly (as  *)
(* tests/unit/search.test.ts does)                                         *)
(***************************************************************************)
\* a number that may be absent
NotGiven == [given |-> FALSE, n |-> 0]
Num(n) == [given |-> TRUE, n |-> n]

\* the arguments tried: query, and options that are absent or hold any of
\* region, safeSearch, numResults
SearchQuerySamples == {"test query", "", Undefined}
RegionSamples == {Undefined, "us-en", ""}
SafeSearchSamples == {Undefined, "STRICT"}
NumResultsSamples == {NotGiven, Num(-1), Num(0), Num(25)}
NoOptions ==
  [given |-> FALSE, region |-> Undefined, safeSearch |-> Undefined,
   numResults |-> NotGiven]
OptionSamples ==
  {NoOptions} \cup
  [given : {TRUE}, region : RegionSamples, safeSearch : SafeSearchSamples,
   numResults : NumResultsSamples]

\* types.ts 172-184: SearchArgsSchema: the query must be a string (any
\* string), numResults a number (any number)
SchemaAccepts(query) == query # Undefined

\* types.ts 174-183: options that are present get the defaults of their
\* absent fields; absent options stay absent
DefaultRegion == "zh-cn"
DefaultSafeSearch == "MODERATE"
DefaultNumResults == Num(50)
SchemaOptions(o) ==
  IF ~o.given THEN o
  ELSE [given |-> TRUE,
        region |-> IF o.region = Undefined THEN DefaultRegion ELSE o.region,
        safeSearch |-> IF o.safeSearch = Undefined THEN DefaultSafeSearch
                       ELSE o.safeSearch,
        numResults |-> IF o.numResults.given THEN o.numResults
                       ELSE DefaultNumResults]

\* a || b on strings: the empty string and undefined are falsy
OrStr(a, b) == IF a \in {Undefined, ""} THEN b ELSE a
\* a || b on numbers: 0 and undefined are falsy
OrNum(a, b) == IF ~a.given \/ a.n = 0 THEN b ELSE a
\* a !== undefined ? a : b
DefinedOr(a, b) == IF a.given THEN a ELSE b

\* search.ts 151-158: the options given to search()
PassedOptions(o) ==
  [region |-> OrStr(o.region, DefaultRegion),
   safeSearch |-> OrStr(o.safeSearch, DefaultSafeSearch),
   numResults |-> DefinedOr(o.numResults, DefaultNumResults)]

\* search.ts 164-168: the options given to processSearchResults
EchoArgument(o) ==
  [region |-> OrStr(o.region, DefaultRegion),
   safeSearch |-> OrStr(o.safeSearch, DefaultSafeSearch),
   numResults |-> OrNum(o.numResults, DefaultNumResults)]

\* search.ts 110-114: metadata.searchContext
SearchContext(e) ==
  [region |-> OrStr(e.region, DefaultRegion),
   safeSearch |-> OrStr(e.safeSearch, DefaultSafeSearch),
   numResults |-> OrNum(e.numResults, DefaultNumResults)]

NoPassed == [region |-> Undefined, safeSearch |-> Undefined,
             numResults |-> NotGiven]
SrIdle ==
  [pc |-> "idle", query |-> Undefined, options |-> NoOptions,
   searched |-> FALSE, passedQuery |-> Undefined, passed |-> NoPassed,
   responded |-> FALSE, context |-> NoPassed, resultCount |-> 0,
   results |-> <<>>, data |-> <<>>,
   error |-> NoError]

\* the numbers of results the external search resolves with
ResultCounts == {0, 3}

\* search.ts 142-163: performSearch(args) up to await search(query, options)
PerformSearch ==
  /\ sr.pc = "idle"
  /\ \E q \in SearchQuerySamples, o \in OptionSamples :
       LET r == [SrIdle EXCEPT !.query = q, !.options = o]
       IN IF SchemaAccepts(q)
            THEN sr' = [r EXCEPT !.pc = "search_wait", !.searched = TRUE,
                                 !.passedQuery = q,
                                 !.passed = PassedOptions(SchemaOptions(o))]
            ELSE sr' = [r EXCEPT !.pc = "rejected",
                          !.error = PlainError(<<"Invalid arguments: ", "Required">>)]
  /\ UNCHANGED <<initialized, pendingInitialization, mgrVars, proc, ncalls, rt, ul>>

\* the URLs of the results of the external search, cut into fragments;
\* String.includes of a marker is membership among the fragments
ResultUrls ==
  {<<"https://", "docs.", "example.com", "/">>,
   <<"https://", "github.com", "/a">>,
   <<"https://", "GitHub.com", "/a">>,
   <<"https://", "twitter.com", "/docs/", "x">>,
   <<"https://", "facebook.com", "/", "stackoverflow.com">>,
   <<"https://", "twitter.com", "/a">>,
   <<"https://", "LinkedIn.com", "/in">>,
   <<"https://", "example.com", "/a">>,
   <<"/relative", "/documentation/">>}

\* search.ts 20: result.url.toLowerCase()
LowerFragment(f) ==
  CASE f = "GitHub.com" -> "github.com"
    [] f = "LinkedIn.com" -> "linkedin.com"
    [] OTHER -> f
ToLowerCase(url) == [i \in 1 .. Len(url) |-> LowerFragment(url[i])]

\* a detection that looks for the social hosts first
DetectContentTypeSocialFirst(resultUrl) ==
  LET url == ToLowerCase(resultUrl)
  IN IF \/ Includes(url, "twitter.com") \/ Includes(url, "facebook.com")
        \/ Includes(url, "linkedin.com")
       THEN "social"
     ELSE IF \/ Includes(url, "docs.") \/ Includes(url, "/docs/")
             \/ Includes(url, "/documentation/")
             \/ Includes(url, "github.com") \/ Includes(url, "stackoverflow.com")
       THEN "documentation"
     ELSE "article"

\* search.ts 19-31: detectContentType
DetectContentType(resultUrl) ==
  LET url == ToLowerCase(resultUrl)
  IN IF \/ Includes(url, "docs.") \/ Includes(url, "/docs/")
        \/ Includes(url, "/documentation/")
       THEN "documentation"
     ELSE IF Includes(url, "github.com") \/ Includes(url, "stackoverflow.com")
       THEN "documentation"
     ELSE IF \/ Includes(url, "twitter.com") \/ Includes(url, "facebook.com")
             \/ Includes(url, "linkedin.com")
       THEN "social"
     ELSE "article"

\* search.ts 103: new URL(result.url) does not throw: the URL is absolute
ResultUrlParses(url) == url[1] \in {"https://", "http://"} /\ Len(url) >= 2

\* search.ts 93-105: results.map: one entry for each result, in order
ProcessedData(results) ==
  [i \in 1 .. Len(results) |->
     [url |-> results[i], type |-> DetectContentType(results[i])]]

\* what the external search resolves with: no result, or three of them
ResultLists ==
  UNION {[1 .. n -> ResultUrls] : n \in ResultCounts}

\* search.ts 162-175: search resolved; the results are processed; a result
\* whose URL new URL cannot parse makes processSearchResults throw inside
\* the try, and performSearch rejects
ExternalSearchResolves ==
  /\ sr.pc = "search_wait"
  /\ \E results \in ResultLists :
       IF \A i \in 1 .. Len(results) : ResultUrlParses(results[i])
         THEN sr' = [sr EXCEPT !.pc = "resolved", !.responded = TRUE,
                       !.results = results,
                       !.data = ProcessedData(results),
                       !.resultCount = Len(results),
                       !.context = SearchContext(EchoArgument(SchemaOptions(sr.options)))]
         ELSE sr' = [sr EXCEPT !.pc = "rejected", !.results = results,
                       !.error = PlainError(<<"Search failed: ", "Invalid URL">>)]
  /\ UNCHANGED <<initialized, pendingInitialization, mgrVars, proc, ncalls, rt, ul>>

\* search.ts 171-175: search rejected
ExternalSearchRejects ==
  /\ sr.pc = "search_wait"
  /\ \E e \in ExtErrors :
       sr' = [sr EXCEPT !.pc = "rejected",
                        !.error = PlainError(<<"Search failed: ">> \o e.msg)]
  /\ UNCHANGED <<initialized, pendingInitialization, mgrVars, proc, ncalls, rt, ul>>

(***************************************************************************)
(* utils.ts 44-51: calls of isValidUrl (as tests/unit/utils.test.ts)       *)
(***************************************************************************)
\* one call: new URL either throws, and the catch returns false, or gives
\* the protocol that is compared; nothing but the result leaves the call
CallIsValidUrl ==
  /\ Len(ul) < MaxUrlCalls
  /\ \E s \in UrlSamples :
       ul' = Append(ul, [arg |-> s, outcome |-> "returned",
                         ret |-> IsValidUrl(s)])
  /\ UNCHANGED <<initialized, pendingInitialization, mgrVars, proc, ncalls, rt, sr>>

(***************************************************************************)
(* Direct use of the BrowserManager API (as tests/unit/browser.test.ts)    *)
(***************************************************************************)
CallEnsureBrowser(p) ==
  /\ proc[p].pc = "idle"
  /\ ncalls < MaxCalls
  /\ ncalls' = ncalls + 1
  /\ proc' = [proc EXCEPT ![p] = EnsureEnter([ProcIdle EXCEPT !.api = "ensure"])]
  /\ UNCHANGED <<mgrVars, initialized, pendingInitialization, rt, sr, ul>>

CallCleanup(p) ==
  /\ proc[p].pc = "idle"
  /\ ncalls < MaxCalls
  /\ ncalls' = ncalls + 1
  /\ CleanupEnter(p, [ProcIdle EXCEPT !.api = "cleanup"])
  /\ UNCHANGED <<initialized, pendingInitialization, rt, sr, ul>>

CallResetBrowser ==
  /\ ncalls < MaxCalls
  /\ (browser # NoBrowser \/ page # NoPage)
  /\ ncalls' = ncalls + 1
  /\ ResetBrowser
  /\ UNCHANGED <<initialized, pendingInitialization, rt, sr, ul>>

\* the caller takes the result: the slot is free again
CallSettled(p) ==
  /\ proc[p].pc \in {"returned", "threw"}
  /\ proc' = [proc EXCEPT ![p] = ProcIdle]
  /\ UNCHANGED <<mgrVars, initialized, pendingInitialization, ncalls, rt, sr, ul>>

SrvInit ==
  /\ initialized = FALSE
  /\ pendingInitialization = "pending"
  /\ browser = NoBrowser
  /\ page = NoPage
  /\ browsers = <<>>
  /\ pages = <<>>
  /\ proc = [p \in Procs |-> ProcIdle]
  /\ ncalls = 0

Init == SrvInit /\ rt = RtIdle /\ sr = SrIdle /\ ul = <<>>

InitManager == Init

NextManager ==
  \/ \E p \in Procs : CallEnsureBrowser(p)
  \/ \E p \in Procs : CallCleanup(p)
  \/ CallResetBrowser
  \/ \E p \in Procs : CallSettled(p)
  \/ \E p \in Procs : LaunchResolved(p)
  \/ \E p \in Procs : LaunchRejected(p)
  \/ \E p \in Procs : ContextResolved(p)
  \/ \E p \in Procs : PageResolved(p)
  \/ \E p \in Procs : CreateRejected(p)
  \/ \E p \in Procs : CleanupClosed(p)

SpecManager == InitManager /\ [][NextManager]_vars

Next ==
  \/ Initialized
  \/ \E p \in Procs : ReceiveListTools(p)
  \/ \E p \in Procs : ReceiveCallTool(p)
  \/ \E p \in Procs : ListTools(p)
  \/ \E p \in Procs : CallTool(p)
  \/ \E p \in Procs : SearchResolved(p)
  \/ \E p \in Procs : SearchRejected(p)
  \/ \E p \in Procs : LaunchResolved(p)
  \/ \E p \in Procs : LaunchRejected(p)
  \/ \E p \in Procs : ContextResolved(p)
  \/ \E p \in Procs : PageResolved(p)
  \/ \E p \in Procs : CreateRejected(p)
  \/ \E p \in Procs : NavContextResolved(p)
  \/ \E p \in Procs : NavCookiesResolved(p)
  \/ \E p \in Procs : NavGotoResolved(p)
  \/ \E p \in Procs : NavSettled(p)
  \/ \E p \in Procs : NavInspected(p)
  \/ \E p \in Procs : NavRejected(p)
  \/ \E p \in Procs : ExtractResolved(p)
  \/ \E p \in Procs : ExtractRejected(p)
  \/ \E p \in Procs : ShotViewportSet(p)
  \/ \E p \in Procs : ShotCaptured(p)
  \/ \E p \in Procs : ShotRejected(p)
  \/ \E p \in Procs : Respond(p)

Spec == Init /\ [][Next]_vars

InitRetry == Init

NextRetry ==
  \/ RetryCall
  \/ RetryCallDefault
  \/ RetryOpResolves
  \/ RetryOpRejects
  \/ RetryWaitDone

SpecRetry == InitRetry /\ [][NextRetry]_vars

InitSearch == Init

NextSearch ==
  \/ PerformSearch
  \/ ExternalSearchResolves
  \/ ExternalSearchRejects

SpecSearch == InitSearch /\ [][NextSearch]_vars

InitRace == Init

NextRace ==
  \/ Initialized
  \/ \E p \in Procs : ReceiveRaceCall(p)
  \/ \E p \in Procs : CallTool(p)
  \/ \E p \in Procs : LaunchResolved(p)
  \/ \E p \in Procs : LaunchRejected(p)
  \/ \E p \in Procs : ContextResolved(p)
  \/ \E p \in Procs : PageResolved(p)
  \/ \E p \in Procs : CreateRejected(p)
  \/ \E p \in Procs : NavContextResolved(p)
  \/ \E p \in Procs : NavCookiesResolved(p)
  \/ \E p \in Procs : NavGotoResolved(p)
  \/ \E p \in Procs : NavSettled(p)
  \/ \E p \in Procs : NavInspected(p)
  \/ \E p \in Procs : NavRejected(p)
  \/ \E p \in Procs : ExtractResolved(p)
  \/ \E p \in Procs : ExtractRejected(p)
  \/ \E p \in Procs : ShotViewportSet(p)
  \/ \E p \in Procs : ShotCaptured(p)
  \/ \E p \in Procs : ShotRejected(p)
  \/ \E p \in Procs : Respond(p)

SpecRace == InitRace /\ [][NextRace]_vars

InitFlag == Init

NextFlag ==
  \/ Initialized
  \/ \E p \in Procs : ReceiveFlagCall(p)
  \/ \E p \in Procs : CallTool(p)
  \/ \E p \in Procs : LaunchResolved(p)
  \/ \E p \in Procs : LaunchRejected(p)
  \/ \E p \in Procs : ContextResolved(p)
  \/ \E p \in Procs : PageResolved(p)
  \/ \E p \in Procs : CreateRejected(p)
  \/ \E p \in Procs : NavContextResolved(p)
  \/ \E p \in Procs : NavCookiesResolved(p)
  \/ \E p \in Procs : NavGotoResolved(p)
  \/ \E p \in Procs : NavSettled(p)
  \/ \E p \in Procs : NavInspected(p)
  \/ \E p \in Procs : NavRejected(p)
  \/ \E p \in Procs : ExtractResolved(p)
  \/ \E p \in Procs : ExtractRejected(p)
  \/ \E p \in Procs : Respond(p)

SpecFlag == InitFlag /\ [][NextFlag]_vars

InitUrl == Init

NextUrl == CallIsValidUrl

SpecUrl == InitUrl /\ [][NextUrl]_vars

(***************************************************************************)
(* Properties                                                              *)
(***************************************************************************)
Handlers == {p \in Procs : proc[p].api = "call"}
Answered(p) == proc[p].pc = "done"
RegisteredTools == {"search_duckduckgo", "visit_page", "take_screenshot"}

\* C1: withRetry with a maximum attempt count M >= 1: an operation that
\* first succeeds on its N-th invocation (N <= M) is invoked exactly N times
\* and withRetry resolves with that invocation's result; an operation whose
\* first M invocations all fail is invoked exactly M times and withRetry
\* rejects with the error of the M-th invocation.
C1_RetryCountAndOutcome ==
  rt.retries >= 1 =>
    LET N == Len(rt.hist)
    IN /\ N <= rt.retries
       /\ \A j \in 1 .. N - 1 : ~rt.hist[j].ok
       /\ rt.pc = "resolved" =>
            /\ N >= 1
            /\ rt.hist[N].ok
            /\ rt.result = rt.hist[N].val
       /\ rt.pc = "rejected" =>
            /\ N = rt.retries
            /\ ~rt.hist[N].ok
            /\ rt.result = rt.hist[N].val
       /\ (N >= 1 /\ rt.hist[N].ok) => rt.pc = "resolved"

\* C1 witnesses: success on the last allowed invocation (N = M = 3)
C1_SucceedsOnLastAttempt ==
  /\ rt.pc = "resolved"
  /\ rt.retries = 3
  /\ Len(rt.hist) = 3
  /\ rt.result = rt.hist[3].val

\* C2: whenever takeScreenshotWithSizeLimit returns a value, the value is
\* the base64 encoding of the most recent capture, that capture has at most
\* 5 * 1024 * 1024 bytes, and a capture of exactly 5 * 1024 * 1024 bytes is
\* returned without a further resize or capture.
C2_ReturnedShotWithinLimit ==
  \A p \in Handlers :
    proc[p].name = "take_screenshot" =>
      /\ (Answered(p) /\ proc[p].resp.kind = "result") =>
           /\ proc[p].resp.content = <<ImageItem(Base64(proc[p].shot))>>
           /\ proc[p].shot.id = proc[p].ncap
           /\ proc[p].shot.id >= 1
           /\ proc[p].shot.len <= 5 * 1024 * 1024
           /\ Len(proc[p].vpLog) = proc[p].ncap
      /\ proc[p].shot.len = 5 * 1024 * 1024 =>
           /\ Answered(p)
           /\ proc[p].resp.kind = "result"
           /\ Len(proc[p].vpLog) = proc[p].shot.id

\* C2 witness: after one shrink, a capture of exactly the limit is returned
C2_ExactLimitReturned ==
  \E p \in Handlers :
    /\ Answered(p)
    /\ proc[p].resp.kind = "result"
    /\ proc[p].name = "take_screenshot"
    /\ proc[p].shot = [id |-> 2, len |-> 5 * 1024 * 1024]
    /\ proc[p].resp.content[1].body.of = 2

\* C3: in shrink attempt k (1..3) the viewport given to setViewportSize is
\* round(1600 * 0.75^k) x round(900 * 0.75^k) with each of width and height
\* clamped to [800, 1920]; no setViewportSize call ever gets a width or a
\* height outside [800, 1920].
C3_ViewportClampedBothWays ==
  \A p \in Procs :
    /\ \A k \in 1 .. proc[p].attempts :
         proc[p].vpLog[k + 1] = ShrinkViewportBothClamped(k)
    /\ \A i \in 1 .. Len(proc[p].vpLog) :
         /\ proc[p].vpLog[i].width \in 800 .. 1920
         /\ proc[p].vpLog[i].height \in 800 .. 1920

\* C4: under every interleaving of the ensureBrowser calls of concurrent
\* visit_page / take_screenshot calls, chromium.launch is performed at most
\* once (no cleanup intervenes), and no launched browser or created page
\* exists that is not the one the manager's handles refer to.
C4_OneBrowserOnePage ==
  /\ Len(browsers) <= 1
  /\ \A b \in LiveBrowsers : b = browser
  /\ \A g \in LivePages : g = page

\* C5: in every reachable state of a BrowserManager the page handle is set
\* only if the browser handle is set, and every page that ensureBrowser
\* returns belongs to the browser the manager holds at the moment of the
\* return, which is not closed.
C5_PageBackedByHeldBrowser ==
  /\ page # NoPage => browser # NoBrowser
  /\ \A p \in Procs :
       (proc[p].api = "ensure" /\ proc[p].pc = "returned") =>
         /\ proc[p].ret # NoPage
         /\ proc[p].retBrowser # NoBrowser
         /\ pages[proc[p].ret].browser = proc[p].retBrowser
         /\ browsers[proc[p].retBrowser] = "live"

\* C6 (amended): a call-tool request with a non-empty name other than the
\* three registered tools is answered with an error of code MethodNotFound;
\* one with an empty name is answered with an error of code InvalidRequest;
\* in both cases no component (performSearch, ensureBrowser,
\* safePageNavigation, extractContentAsMarkdown,
\* takeScreenshotWithSizeLimit) is invoked for the request.
C6_UnregisteredNameRejected ==
  \A p \in Handlers :
    proc[p].name \notin RegisteredTools =>
      /\ proc[p].calls = {}
      /\ proc[p].pc \in {"init_wait", "done"}
      /\ Answered(p) =>
           /\ proc[p].resp.kind = "error"
           /\ proc[p].resp.content = <<>>
           /\ proc[p].resp.code =
                IF proc[p].name = "" THEN "InvalidRequest" ELSE "MethodNotFound"

\* C6 witness: an unregistered, non-empty name was answered while the
\* manager holds a browser
C6_UnknownToolAnswered ==
  \E p \in Handlers :
    /\ Answered(p)
    /\ proc[p].name = "nonexistent_tool"
    /\ proc[p].resp.code = "MethodNotFound"
    /\ proc[p].resp.msg = <<"Unknown tool: ", "nonexistent_tool">>
    /\ browser # NoBrowser

\* C6 as stated: every call-tool request naming anything other than the
\* three registered tools is answered with MethodNotFound and invokes no
\* component.
C6_AnyOtherNameMethodNotFound ==
  \A p \in Handlers :
    (Answered(p) /\ proc[p].name \notin RegisteredTools) =>
      /\ proc[p].resp.kind = "error"
      /\ proc[p].resp.code = "MethodNotFound"
      /\ proc[p].calls = {}

\* C7: a search_duckduckgo call whose arguments lack the query is answered
\* with an error of code InvalidParams, and neither performSearch nor the
\* external search function is invoked for it.
C7_MissingQueryInvalidParams ==
  \A p \in Handlers :
    (proc[p].name = "search_duckduckgo" /\ proc[p].args.query = Undefined) =>
      /\ proc[p].calls \cap {"performSearch", "search"} = {}
      /\ Answered(p) =>
           /\ proc[p].resp.kind = "error"
           /\ proc[p].resp.code = "InvalidParams"

\* C8: a visit_page call whose url is not an absolute URL with the scheme
\* http or https is answered with an error before any side effect:
\* ensureBrowser is not called, no cookie is added, no navigation is
\* attempted.
C8_NonHttpUrlRejectedFirst ==
  \A p \in Handlers :
    (/\ proc[p].name = "visit_page"
     /\ (proc[p].args.url = Undefined \/ ~IsValidUrl(proc[p].args.url))) =>
      /\ proc[p].calls \cap {"ensureBrowser", "addCookies", "goto"} = {}
      /\ Answered(p) => proc[p].resp.kind = "error"

\* C9: every answered list-tools request, in any state of the server and
\* after any earlier tool calls, returns exactly the three descriptors
\* search_duckduckgo, visit_page, take_screenshot, in this order.
C9_ListToolsAlwaysThree ==
  \A p \in Procs :
    (proc[p].api = "list" /\ Answered(p)) =>
      /\ proc[p].resp.kind = "result"
      /\ Len(proc[p].resp.tools) = 3
      /\ proc[p].resp.tools =
           <<"search_duckduckgo", "visit_page", "take_screenshot">>

\* C9 witness: a list-tools request answered after an earlier tool call
\* launched the browser and while another tool call is answered with an error
C9_ListedAfterToolCalls ==
  \E p \in Procs, q \in Handlers :
    /\ proc[p].api = "list"
    /\ Answered(p)
    /\ browser # NoBrowser
    /\ Answered(q)
    /\ proc[q].resp.kind = "error"

\* C10: once the page has loaded with a status below 400, safePageNavigation
\* rejects by strict priority: with the bot-protection flag set, with
\* exactly "Bot protection detected", whatever the word count and the title
\* flag; otherwise, with the title flag set, with "Suspicious page title
\* detected" whatever the word count; "Page contains insufficient content"
\* is reported only when both flags are false.
C10_RejectionPriority ==
  \A p \in Handlers :
    proc[p].val.set =>
      /\ proc[p].val.botProtection =>
           /\ Answered(p)
           /\ proc[p].thrown = PlainError(<<"Bot protection", " detected">>)
      /\ (~proc[p].val.botProtection /\ proc[p].val.suspiciousTitle) =>
           /\ Answered(p)
           /\ proc[p].thrown =
                PlainError(<<"Suspicious page title", " detected">>)
      /\ proc[p].thrown = PlainError(<<"Page contains ", "insufficient content">>) =>
           /\ ~proc[p].val.botProtection
           /\ ~proc[p].val.suspiciousTitle
           /\ proc[p].val.wordCount < 10

\* C10 witness: both flags set on a page with enough words: the bot
\* protection is what is reported
C10_BotWinsOverTitle ==
  \E p \in Handlers :
    /\ proc[p].val.set
    /\ proc[p].val.botProtection
    /\ proc[p].val.suspiciousTitle
    /\ proc[p].val.wordCount >= 10
    /\ proc[p].thrown = PlainError(<<"Bot protection", " detected">>)
    /\ proc[p].resp.kind = "error"

\* C11: with both flags false and a status below 400, safePageNavigation
\* resolves if and only if the word count is at least 10: a count of 10 is
\* accepted, a count below 10 rejects with "Page contains insufficient
\* content".
C11_AcceptedIffTenWords ==
  \A p \in Handlers :
    (/\ proc[p].val.set
     /\ ~proc[p].val.botProtection
     /\ ~proc[p].val.suspiciousTitle) =>
      /\ proc[p].val.wordCount >= 10 =>
           /\ "extractContentAsMarkdown" \in proc[p].calls
           /\ proc[p].thrown \notin {BotError, TitleError, ContentError}
           /\ ~Includes(proc[p].thrown.msg, "Navigation to ")
      /\ proc[p].val.wordCount < 10 =>
           /\ Answered(p)
           /\ "extractContentAsMarkdown" \notin proc[p].calls
           /\ proc[p].thrown =
                PlainError(<<"Page contains ", "insufficient content">>)
           /\ proc[p].resp.kind = "error"

\* C11 witness: a page of exactly ten words, no flag set, was accepted and
\* its content returned
C11_TenWordsAccepted ==
  \E p \in Handlers :
    /\ proc[p].val = [set |-> TRUE, wordCount |-> 10, botProtection |-> FALSE,
                      suspiciousTitle |-> FALSE]
    /\ Answered(p)
    /\ proc[p].resp.kind = "result"

C13_PassedOptionsEqualEcho ==
  sr.responded =>
    LET o == sr.options
        expected ==
          [region |-> IF o.given /\ o.region # Undefined
                        THEN o.region ELSE "zh-cn",
           safeSearch |-> IF o.given /\ o.safeSearch # Undefined
                            THEN o.safeSearch ELSE "MODERATE",
           numResults |-> IF o.given /\ o.numResults.given
                            THEN o.numResults ELSE Num(50)]
    IN /\ sr.passed = sr.context
       /\ sr.passed = expected
       /\ sr.context = expected

\* C14: performSearch rejects a call with the empty query and a negative
\* numResults because of its arguments, whatever the external search would
\* return: the external search is not relied on and no response is produced.
C14_EmptyQueryNegativeCountRejected ==
  (/\ sr.pc # "idle"
   /\ sr.query = ""
   /\ sr.options.given
   /\ sr.options.numResults = Num(-1)) =>
    /\ sr.pc = "rejected"
    /\ Includes(sr.error.msg, "Invalid arguments: ")
    /\ ~sr.searched
    /\ ~sr.responded

\* C15: extractContentAsMarkdown leaves the live page unchanged: the noise
\* regions are removed only from a copy of the body, so the document of
\* every page, as a later take_screenshot or extraction sees it, still
\* contains them.
C15_LivePageKeepsNoise ==
  \A g \in 1 .. Len(pages) : ~pages[g].noiseRemoved

Screenshots == {p \in Handlers : proc[p].name = "take_screenshot"}

\* C16: if the first k-1 captures of a takeScreenshotWithSizeLimit call each
\* exceed 5 MiB and the k-th (1 <= k <= 5) does not, the result is the
\* base64 encoding of exactly the k-th capture, no further capture is taken,
\* and setViewportSize has been called exactly k times (k-1 resizes after
\* the initial 1600x900).
C16_FirstFittingCaptureReturned ==
  \A p \in Screenshots :
    LET k == Len(proc[p].caps)
    IN /\ k <= 5
       /\ \A j \in 1 .. k - 1 : proc[p].caps[j] > 5 * 1024 * 1024
       /\ (k >= 1 /\ proc[p].caps[k] <= 5 * 1024 * 1024) =>
            /\ Answered(p)
            /\ proc[p].resp.kind = "result"
            /\ proc[p].resp.content =
                 <<ImageItem(Base64([id |-> k, len |-> proc[p].caps[k]]))>>
            /\ Len(proc[p].vpLog) = k
            /\ proc[p].vpLog[1] = [width |-> 1600, height |-> 900]
       /\ (Answered(p) /\ proc[p].resp.kind = "result") =>
            /\ k >= 1
            /\ proc[p].caps[k] <= 5 * 1024 * 1024

\* C16 witness: the third capture is the first that fits; the viewport was
\* resized twice before it
C16_ThirdCaptureReturned ==
  \E p \in Screenshots :
    /\ Answered(p)
    /\ proc[p].resp.kind = "result"
    /\ Len(proc[p].caps) = 3
    /\ proc[p].caps[1] > 5 * 1024 * 1024
    /\ proc[p].caps[2] > 5 * 1024 * 1024
    /\ proc[p].caps[3] <= 5 * 1024 * 1024
    /\ Len(proc[p].vpLog) = 3
    /\ proc[p].resp.content[1].body.of = 3

\* C17: takeScreenshotWithSizeLimit takes at most 5 captures (the initial
\* one, at most 3 shrink attempts, at most one at the forced 800x800); the
\* 800x800 capture is taken only when the capture after the third shrink
\* attempt is still oversized; the call fails with "Failed to reduce
\* screenshot to under 5MB even with minimum settings" if and only if all
\* five captures exceed 5 MiB.
C17_AtMostFiveCaptures ==
  \A p \in Screenshots :
    LET k == Len(proc[p].caps)
        allOversized ==
          k = 5 /\ \A j \in 1 .. 5 : proc[p].caps[j] > 5 * 1024 * 1024
    IN /\ k <= 5
       /\ Len(proc[p].vpLog) <= 5
       /\ proc[p].attempts <= 3
       /\ k = 5 => Answered(p)
       /\ (Len(proc[p].vpLog) = 5 \/ proc[p].stage = "min") =>
            /\ proc[p].vpLog[5] = [width |-> 800, height |-> 800]
            /\ proc[p].attempts = 3
            /\ k >= 4
            /\ proc[p].caps[4] > 5 * 1024 * 1024
       /\ \A i \in 1 .. Len(proc[p].vpLog) :
            (i < 5 /\ i > 1) =>
              proc[p].vpLog[i] # [width |-> 800, height |-> 800]
       /\ Answered(p) =>
            (allOversized <=>
               proc[p].thrown = PlainError(<<"Failed to reduce screenshot to under 5MB even with minimum settings">>))

\* C17 witness: five oversized captures, and the call failed
C17_FiveOversizedFails ==
  \E p \in Screenshots :
    /\ Answered(p)
    /\ Len(proc[p].caps) = 5
    /\ \A j \in 1 .. 5 : proc[p].caps[j] > 5 * 1024 * 1024
    /\ proc[p].resp.kind = "error"
    /\ proc[p].resp.msg =
         <<"Tool execution failed: ",
           "Failed to reduce screenshot to under 5MB even with minimum settings">>

\* the positions of a handler inside safePageNavigation
NavPcs == {"nav_context", "nav_cookies", "nav_goto", "nav_settle", "nav_eval"}

\* C18: the only errors that leave safePageNavigation unwrapped are the
\* three validation rejections ("Bot protection detected", "Suspicious page
\* title detected", "Page contains insufficient content"); every other
\* exception raised during navigation, whatever its message text, leaves it
\* as an error whose message begins with "Navigation to <url> failed".
C18_OnlyValidationErrorsUnwrapped ==
  [][\A p \in Handlers :
       (proc[p].pc \in NavPcs /\ proc'[p].pc = "done"
          /\ proc'[p].thrown # NoError) =>
         \/ /\ proc[p].pc = "nav_eval"
            /\ proc'[p].thrown \in {BotError, TitleError, ContentError}
         \/ /\ Len(proc'[p].thrown.msg) >= 3
            /\ proc'[p].thrown.msg[1] = "Navigation to "
            /\ proc'[p].thrown.msg[2] = proc[p].args.url
            /\ proc'[p].thrown.msg[3] = " failed: "]_vars

\* C19: isValidUrl returns true exactly for the strings that new URL parses
\* as an absolute URL whose scheme is http or https, and false for every
\* other string, among them "", "not-a-url" and "ftp://e.c"; every call
\* returns (none throws) and leaves the state of the program as it was.
C19_TrueIffParsesAsHttp ==
  /\ \A i \in 1 .. Len(ul) :
       LET s == ul[i].arg
           scheme == SchemeOf(Strip(Chars(s)))
       IN /\ ul[i].outcome = "returned"
          /\ ul[i].ret \in BOOLEAN
          /\ ul[i].ret <=>
               (UrlParses(s) /\ scheme \in {<<"h", "t", "t", "p">>,
                                            <<"h", "t", "t", "p", "s">>})
          /\ s \in {"", "not-a-url", "ftp://e.c"} => ~ul[i].ret
          /\ s \in {"https://e.c", "http://e.c/p"} => ul[i].ret
  /\ ul # <<>> =>
       /\ initialized = FALSE
       /\ browser = NoBrowser /\ page = NoPage
       /\ browsers = <<>> /\ pages = <<>>
       /\ \A p \in Procs : proc[p] = ProcIdle
       /\ rt = RtIdle /\ sr = SrIdle

\* C19 witness: a string of another scheme was rejected and a string that
\* parses as an http URL without the spelling "http://" was accepted
C19_UppercaseSchemeAccepted ==
  /\ Len(ul) = 2
  /\ ul[1] = [arg |-> "ftp://e.c", outcome |-> "returned", ret |-> FALSE]
  /\ ul[2] = [arg |-> "HTTP://e.c", outcome |-> "returned", ret |-> TRUE]

\* C19 as first stated: in addition, isValidUrl returns false for every
\* string that does not start with "http://" or "https://"
C19_FalseWithoutLiteralPrefix ==
  \A i \in 1 .. Len(ul) :
    LET cs == Chars(ul[i].arg)
        startsWith(pre) == Len(cs) >= Len(pre) /\ SubSeq(cs, 1, Len(pre)) = pre
    IN /\ ul[i].outcome = "returned"
       /\ ul[i].ret <=> (UrlParses(ul[i].arg)
                           /\ SchemeOf(Strip(cs)) \in {<<"h", "t", "t", "p">>,
                                                       <<"h", "t", "t", "p", "s">>})
       /\ (~startsWith(<<"h", "t", "t", "p", ":", "/", "/">>)
             /\ ~startsWith(<<"h", "t", "t", "p", "s", ":", "/", "/">>))
            => ~ul[i].ret

\* C20: a cleanup call that finds a browser held calls browser.close
\* exactly once and, when it completes, leaves both the browser handle and
\* the page handle absent, whether close resolved or rejected; a cleanup
\* call that finds no browser held calls nothing, changes nothing and
\* returns without throwing (so a second cleanup right after the first is a
\* no-op); an ensureBrowser call that finds no browser held, as the first
\* one after a cleanup does, launches a new browser and returns no old page.
C20_CleanupClosesOnceAndClears ==
  [][\A p \in Procs :
       /\ (proc[p].pc = "idle" /\ proc'[p].api = "cleanup") =>
            IF browser = NoBrowser
              THEN /\ proc'[p].pc = "returned"
                   /\ proc'[p].calls = {}
                   /\ proc'[p].closes = 0
                   /\ proc'[p].thrown = NoError
                   /\ UNCHANGED mgrVars
              ELSE /\ proc'[p].pc = "cl_close"
                   /\ proc'[p].calls = {"close"}
                   /\ proc'[p].closes = 1
                   /\ proc'[p].br = browser
                   /\ browsers'[browser] # "live"
       /\ (proc[p].api = "cleanup" /\ proc[p].pc = "cl_close") =>
            /\ proc'[p].closes = 1
            /\ proc'[p].pc # "cl_close" =>
                 /\ proc'[p].pc = "returned"
                 /\ proc'[p].thrown = NoError
                 /\ browser' = NoBrowser
                 /\ page' = NoPage
       /\ (proc[p].pc = "idle" /\ proc'[p].api = "ensure"
             /\ browser = NoBrowser) =>
            /\ proc'[p].pc = "eb_launch"
            /\ proc'[p].pg = NoPage]_vars

\* C20 witness: a cleanup of a manager that held a browser and a page has
\* completed: close was called once, the browser is closed, both handles
\* are absent
C20_CleanupCompleted ==
  \E p \in Procs :
    /\ proc[p].api = "cleanup"
    /\ proc[p].pc = "returned"
    /\ proc[p].closes = 1
    /\ proc[p].calls = {"close"}
    /\ browsers[proc[p].br] = "closed"
    /\ \E g \in 1 .. Len(pages) : pages[g].browser = proc[p].br
    /\ browser = NoBrowser
    /\ page = NoPage

Visits == {p \in Handlers : proc[p].name = "visit_page"}

\* C21: every answered call-tool request ends either in a result that
\* carries the complete content (exactly one item) or in an error that
\* carries no content; in a visit_page call ensureBrowser is entered only
\* with valid arguments, safePageNavigation only with the page that
\* ensureBrowser returned, extractContentAsMarkdown only after the
\* navigation was accepted, and a result is given only after the
\* extraction; a call whose navigation rejected never invoked the
\* extraction.
C21_AllOrNothingInOrder ==
  /\ \A p \in Handlers :
       Answered(p) =>
         \/ /\ proc[p].resp.kind = "result"
            /\ Len(proc[p].resp.content) = 1
            /\ proc[p].resp.msg = <<>>
            /\ proc[p].thrown = NoError
         \/ /\ proc[p].resp.kind = "error"
            /\ proc[p].resp.content = <<>>
            /\ proc[p].resp.msg # <<>>
  /\ \A p \in Visits :
       LET c == proc[p].calls
           accepted == /\ proc[p].val.set
                       /\ ~proc[p].val.botProtection
                       /\ ~proc[p].val.suspiciousTitle
                       /\ proc[p].val.wordCount >= 10
       IN /\ "ensureBrowser" \in c =>
               (proc[p].args.url # Undefined /\ UrlParses(proc[p].args.url))
          /\ "safePageNavigation" \in c => "ensureBrowser" \in c
          /\ "addCookies" \in c => "safePageNavigation" \in c
          /\ "goto" \in c => "addCookies" \in c
          /\ proc[p].val.set => "goto" \in c
          /\ "extractContentAsMarkdown" \in c =>
               ("safePageNavigation" \in c /\ accepted)
          /\ proc[p].pc \in {"eb_launch", "eb_ctx1", "eb_ctx2", "eb_page1",
                            "eb_page2"} =>
               "safePageNavigation" \notin c
          /\ proc[p].pc \in NavPcs => "extractContentAsMarkdown" \notin c
          /\ proc[p].pc = "ext_eval" => "extractContentAsMarkdown" \in c
          /\ "takeScreenshotWithSizeLimit" \notin c
          /\ (Answered(p) /\ proc[p].resp.kind = "result") =>
               /\ "extractContentAsMarkdown" \in c
               /\ proc[p].resp.content[1].type = "text"
          /\ (Answered(p) /\ "safePageNavigation" \in c /\ ~accepted) =>
               /\ proc[p].resp.kind = "error"
               /\ "extractContentAsMarkdown" \notin c

\* C21 witness: one visit_page call answered with its text after all three
\* steps, another answered with an error after a rejected navigation
C21_VisitAnsweredBothWays ==
  /\ \E p \in Visits :
       /\ Answered(p)
       /\ proc[p].resp.kind = "result"
       /\ {"ensureBrowser", "safePageNavigation", "extractContentAsMarkdown"}
            \subseteq proc[p].calls
  /\ \E p \in Visits :
       /\ Answered(p)
       /\ proc[p].resp.kind = "error"
       /\ proc[p].thrown = ContentError
       /\ "extractContentAsMarkdown" \notin proc[p].calls

\* C22: withRetry waits one fixed delay between two consecutive invocations
\* of the operation and nowhere else: every wait uses the delay argument;
\* before an invocation there have been as many waits as invocations; during
\* a wait and at the end of a run that invoked the operation at least once
\* the number of waits is the number of invocations minus one; no wait
\* follows a successful invocation or the final failed one; a run that
\* invokes nothing waits for nothing.
C22_WaitsBetweenInvocationsOnly ==
  LET N == Len(rt.hist)
      W == Len(rt.waits)
  IN /\ \A j \in 1 .. W : rt.waits[j] = rt.delay
     /\ rt.pc = "op" => W = N
     /\ rt.pc = "wait" =>
          /\ W = N - 1
          /\ ~rt.hist[N].ok
          /\ N < rt.retries
     /\ rt.pc \in {"resolved", "rejected"} =>
          W = (IF N >= 1 THEN N - 1 ELSE 0)
     /\ (N >= 1 /\ rt.hist[N].ok) => (rt.pc = "resolved" /\ W = N - 1)
     /\ (N >= 1 /\ N = rt.retries /\ ~rt.hist[N].ok) =>
          (rt.pc = "rejected" /\ W = N - 1)

\* C22 witness: three failed invocations with two waits of 50 ms between
\* them, and none after the third
C22_TwoWaitsForThreeFailures ==
  /\ rt.pc = "rejected"
  /\ rt.retries = 3
  /\ Len(rt.hist) = 3
  /\ rt.waits = <<50, 50>>

\* C22 as first stated: in every finished run the number of waits is the
\* number of invocations minus one
C22_WaitsAreInvocationsMinusOne ==
  rt.pc \in {"resolved", "rejected"} =>
    /\ Len(rt.waits) = Len(rt.hist) - 1
    /\ \A j \in 1 .. Len(rt.waits) : rt.waits[j] = rt.delay

\* C23: in safePageNavigation the consent cookie is added before page.goto
\* is issued; when page.goto gives no response or a response with a status
\* of 400 or more, the call fails and neither the settle wait nor the
\* inspection of the page is performed; a response with a status of 399 or
\* less goes on to the settle wait and, after it, to the inspection.
C23_GotoGatesSettleAndInspection ==
  \A p \in Visits :
    LET c == proc[p].calls
    IN /\ "goto" \in c => "addCookies" \in c
       /\ proc[p].pc \in {"nav_context", "nav_cookies"} => "goto" \notin c
       /\ proc[p].status # "none" => "goto" \in c
       /\ proc[p].status \in {"no response", "400"} =>
            /\ Answered(p)
            /\ proc[p].resp.kind = "error"
            /\ proc[p].thrown # NoError
            /\ "waitForLoadState" \notin c
            /\ "evaluate" \notin c
            /\ ~proc[p].val.set
       /\ proc[p].status \in {"200", "399"} =>
            /\ "waitForLoadState" \in c
            /\ proc[p].pc = "nav_settle" \/ "evaluate" \in c
       /\ "waitForLoadState" \in c => proc[p].status \in {"200", "399"}
       /\ "evaluate" \in c => "waitForLoadState" \in c
       /\ proc[p].pc = "nav_settle" => "evaluate" \notin c
       /\ proc[p].val.set => "evaluate" \in c

\* C23 witness: a response with status 399 was inspected, and a response
\* with status 400 ended another call without settle wait or inspection
C23_Status399Inspected ==
  /\ \E p \in Visits :
       /\ proc[p].status = "399"
       /\ proc[p].val.set
       /\ {"addCookies", "goto", "waitForLoadState", "evaluate"}
            \subseteq proc[p].calls
  /\ \E p \in Visits :
       /\ proc[p].status = "400"
       /\ Answered(p)
       /\ "evaluate" \notin proc[p].calls

C25_ExtractsWhateverThePageHolds ==
  [][\A p \in Visits :
       (proc[p].pc = "ext_eval" /\ proc'[p].pc = "done"
          /\ proc'[p].resp.kind = "result") =>
         LET body == proc'[p].resp.content[1].body
         IN /\ body[Len(body)] = pages[proc[p].pg].url
            /\ pages[proc[p].pg].url \in RaceUrls
            /\ \A q \in Procs \ {p} : proc'[q] = proc[q]]_vars

\* C25 witness: two visit_page calls overlapped, and the call for
\* https://e.c was answered with the content of http://e.c/p, the page that
\* the other call loaded
C25_ContentOfTheOtherCall ==
  \E p \in Visits : \E q \in Visits \ {p} :
    /\ Answered(p)
    /\ proc[p].resp.kind = "result"
    /\ proc[p].args.url = "https://e.c"
    /\ proc[q].args.url = "http://e.c/p"
    /\ "goto" \in proc[q].calls
    /\ LET body == proc[p].resp.content[1].body
       IN body[Len(body)] = "http://e.c/p"

\* C26: every entry of a search response has exactly one of the types
\* "documentation", "social", "article": "documentation" when its URL, in
\* lower case, contains "docs.", "/docs/", "/documentation/", "github.com" or
\* "stackoverflow.com", even if it also contains a social host; otherwise
\* "social" when it contains "twitter.com", "facebook.com" or
\* "linkedin.com"; otherwise "article"; and the response has as many entries
\* as metadata.resultCount says and as the external search returned, in the
\* same order.
C26_TypeByPrecedenceAndCounts ==
  sr.responded =>
    /\ Len(sr.data) = sr.resultCount
    /\ Len(sr.data) = Len(sr.results)
    /\ \A i \in 1 .. Len(sr.data) :
         LET low == [j \in 1 .. Len(sr.results[i]) |->
                       LowerFragment(sr.results[i][j])]
             has(m) == \E j \in 1 .. Len(low) : low[j] = m
             doc == \E m \in {"docs.", "/docs/", "/documentation/",
                              "github.com", "stackoverflow.com"} : has(m)
             soc == \E m \in {"twitter.com", "facebook.com",
                              "linkedin.com"} : has(m)
         IN /\ sr.data[i].url = sr.results[i]
            /\ sr.data[i].type \in {"documentation", "social", "article"}
            /\ doc => sr.data[i].type = "documentation"
            /\ (~doc /\ soc) => sr.data[i].type = "social"
            /\ (~doc /\ ~soc) => sr.data[i].type = "article"

\* C26 witness: a response of three entries: a social host under /docs/ is
\* documentation, an upper-case social host is social, a plain host is an
\* article
C26_ThreeTypesInOneResponse ==
  /\ sr.responded
  /\ sr.resultCount = 3
  /\ sr.data =
       <<[url |-> <<"https://", "twitter.com", "/docs/", "x">>,
          type |-> "documentation"],
         [url |-> <<"https://", "LinkedIn.com", "/in">>, type |-> "social"],
         [url |-> <<"https://", "example.com", "/a">>, type |-> "article"]>>

C30_ViewportOnlyShrinks ==
  \A p \in Screenshots :
    \A i \in 2 .. Len(proc[p].vpLog) :
      /\ proc[p].vpLog[i].width <= proc[p].vpLog[i - 1].width
      /\ proc[p].vpLog[i].height <= proc[p].vpLog[i - 1].height
      /\ proc[p].vpLog[i].width * proc[p].vpLog[i].height <=
           proc[p].vpLog[i - 1].width * proc[p].vpLog[i - 1].height

====
